---- MODULE Spec2Model ----
(***************************************************************************)
(* Referential-integrity and orphan-cleanup behaviour of the bookstore API *)
(* (Flask + SQLAlchemy ORM over a relational database).                    *)
(*                                                                         *)
(* The persisted state is one variable per table.  Every request handler   *)
(* and every direct unit-of-work operation is one action: it computes the  *)
(* working copy of the database that the session's flushes produce         *)
(* (row DELETEs, the declared ON DELETE actions, the after_delete          *)
(* listeners) and then either commits it or, on an error, rolls back to    *)
(* the last committed state.  Money is counted in cents.  Requests that    *)
(* overlap in time are modelled separately: open holds, per database       *)
(* connection, the writes of a transaction that has flushed and not yet    *)
(* committed.                                                              *)
(***************************************************************************)
EXTENDS Integers, Sequences, FiniteSets, TLC

VARIABLES names, authors, addresses, customers, books, book_authors,
          orders, order_items, seq, last, open

vars == <<names, authors, addresses, customers, books, book_authors,
          orders, order_items, seq, last, open>>

(***************************************************************************)
(* Bounds of the model.                                                    *)
(***************************************************************************)
MaxNames == 3
MaxAuthors == 2
MaxBooks == 2
MaxAddresses == 2
MaxCustomers == 2
MaxOrders == 1
MaxPrice == 2
MaxQuantity == 2
MaxListLen == 2

NULL == 0

BookIds == 1..MaxBooks
AuthorIds == 1..MaxAuthors
NameIds == 1..MaxNames
AddressIds == 1..MaxAddresses
CustomerIds == 1..MaxCustomers
OrderIds == 1..MaxOrders
Prices == 1..MaxPrice
Quantities == 1..MaxQuantity

RawNames == {"terry", "Terry", "Neil"}
Emails == {"john@email.com", "patrick@email.com"}

SeqsUpTo(S, n) == UNION {[1..k -> S] : k \in 0..n}

\* str.title() on the sample names
title(s) == IF s = "terry" THEN "Terry" ELSE s

Remove(f, k) == [x \in DOMAIN f \ {k} |-> f[x]]
Put(f, k, v) == [x \in DOMAIN f \cup {k} |-> IF x = k THEN v ELSE f[x]]

(***************************************************************************)
(* The database as one value, and results of statements run against it.    *)
(***************************************************************************)
Db == [names |-> names, authors |-> authors, addresses |-> addresses,
       customers |-> customers, books |-> books, book_authors |-> book_authors,
       orders |-> orders, order_items |-> order_items, seq |-> seq]

Ok(D) == [db |-> D, err |-> "none"]
Fail(D, e) == [db |-> D, err |-> e]

Store(D) ==
    /\ names' = D.names
    /\ authors' = D.authors
    /\ addresses' = D.addresses
    /\ customers' = D.customers
    /\ books' = D.books
    /\ book_authors' = D.book_authors
    /\ orders' = D.orders
    /\ order_items' = D.order_items
    /\ seq' = D.seq

(***************************************************************************)
(* Row deletes with the declared ON DELETE actions of the referencing      *)
(* foreign keys.                                                            *)
(***************************************************************************)
\* names: authors.name_id and customers.name_id are ON DELETE RESTRICT
SqlDeleteName(D, n) ==
    IF \/ \E a \in DOMAIN D.authors : D.authors[a] = n
       \/ \E c \in DOMAIN D.customers : D.customers[c].name_id = n
    THEN Fail(D, "IntegrityError")
    ELSE Ok([D EXCEPT !.names = Remove(@, n)])

\* authors: book_authors.author_id is ON DELETE CASCADE
SqlDeleteAuthor(D, a) ==
    Ok([D EXCEPT !.authors = Remove(@, a),
                 !.book_authors = {ba \in @ : ba[2] # a}])

\* order_items.book_id declared ON DELETE CASCADE instead of RESTRICT
SqlDeleteBook_cascading(D, b) ==
    Ok([D EXCEPT !.books = Remove(@, b),
                 !.book_authors = {ba \in @ : ba[1] # b},
                 !.order_items = {oi \in @ : oi.book_id # b}])

\* books: order_items.book_id is RESTRICT, book_authors.book_id is CASCADE
SqlDeleteBook(D, b) ==
    IF \E oi \in D.order_items : oi.book_id = b
    THEN Fail(D, "IntegrityError")
    ELSE Ok([D EXCEPT !.books = Remove(@, b),
                      !.book_authors = {ba \in @ : ba[1] # b}])

\* an address delete that leaves the references to it in place
SqlDeleteAddress_dangling(D, x) == Ok([D EXCEPT !.addresses = @ \ {x}])

\* customers.address_id declared ON DELETE CASCADE instead of SET NULL
SqlDeleteAddress_cascading(D, x) ==
    Ok([D EXCEPT !.addresses = @ \ {x},
                 !.customers = [c \in {k \in DOMAIN @ : @[k].address_id # x} |-> @[c]]])

\* addresses: customers.address_id is ON DELETE SET NULL
SqlDeleteAddress(D, x) ==
    Ok([D EXCEPT !.addresses = @ \ {x},
                 !.customers = [c \in DOMAIN @ |->
                     IF @[c].address_id = x
                     THEN [@[c] EXCEPT !.address_id = NULL] ELSE @[c]]])

\* a customer delete that no order restricts
SqlDeleteCustomer_unrestricted(D, c) == Ok([D EXCEPT !.customers = Remove(@, c)])

\* customers: orders.customer_id is ON DELETE RESTRICT
SqlDeleteCustomer(D, c) ==
    IF \E o \in DOMAIN D.orders : D.orders[o].customer_id = c
    THEN Fail(D, "IntegrityError")
    ELSE Ok([D EXCEPT !.customers = Remove(@, c)])

\* orders: order_items.order_id is ON DELETE CASCADE
SqlDeleteOrder(D, o) ==
    Ok([D EXCEPT !.orders = Remove(@, o),
                 !.order_items = {oi \in @ : oi.order_id # o}])

(***************************************************************************)
(* The after_delete listeners.  Each runs on the connection of the flush,  *)
(* after the DELETE statements of its mapper, and uses Core statements:    *)
(* no ORM cascade applies to the rows it deletes.                          *)
(***************************************************************************)
\* variants of the listener with one of its parts missing or unguarded
delete_orphaned_author_keeps_author(D, ba) ==
    LET book_exists == \E r \in D.book_authors : r[1] = ba[1]
    IN  IF ~book_exists THEN SqlDeleteBook(D, ba[1]) ELSE Ok(D)

delete_orphaned_author_unguarded(D, ba) ==
    LET R1 == SqlDeleteAuthor(D, ba[2])
        book_exists == \E r \in R1.db.book_authors : r[1] = ba[1]
    IN  IF ~book_exists THEN SqlDeleteBook(R1.db, ba[1]) ELSE R1

delete_orphaned_author_keeps_book(D, ba) ==
    LET author_exists == \E r \in D.book_authors : r[2] = ba[2]
    IN  IF ~author_exists THEN SqlDeleteAuthor(D, ba[2]) ELSE Ok(D)

delete_orphaned_author(D, ba) ==
    LET author_exists == \E r \in D.book_authors : r[2] = ba[2]
        R1 == IF ~author_exists THEN SqlDeleteAuthor(D, ba[2]) ELSE Ok(D)
    IN  IF R1.err # "none" THEN R1
        ELSE LET book_exists == \E r \in R1.db.book_authors : r[1] = ba[1]
             IN  IF ~book_exists THEN SqlDeleteBook(R1.db, ba[1]) ELSE R1

\* the listener without its existence check
delete_orphaned_address_unguarded(D, deleted_customer) ==
    IF deleted_customer.address_id # NULL
    THEN SqlDeleteAddress(D, deleted_customer.address_id)
    ELSE Ok(D)

delete_orphaned_address(D, deleted_customer) ==
    IF deleted_customer.address_id # NULL
    THEN LET exists == \E c \in DOMAIN D.customers :
                           D.customers[c].address_id = deleted_customer.address_id
         IN  IF ~exists THEN SqlDeleteAddress(D, deleted_customer.address_id)
             ELSE Ok(D)
    ELSE Ok(D)

\* the listener not deleting the order
delete_orphaned_order_skips(D, oi) == Ok(D)

delete_orphaned_order(D, oi) ==
    LET exists == \E r \in D.order_items : r.order_id = oi.order_id
    IN  IF ~exists THEN SqlDeleteOrder(D, oi.order_id) ELSE Ok(D)

(***************************************************************************)
(* Unit-of-work flushes of ORM deletes.  The DELETE statements of all the  *)
(* instances of one mapper are emitted first, then after_delete is         *)
(* dispatched for each instance, in primary-key order.                     *)
(***************************************************************************)
FirstPair(S) == CHOOSE x \in S : \A y \in S :
                    x[1] < y[1] \/ (x[1] = y[1] /\ x[2] <= y[2])

RECURSIVE AfterDeleteBookAuthors(_, _)
AfterDeleteBookAuthors(R, S) ==
    IF S = {} \/ R.err # "none" THEN R
    ELSE LET ba == FirstPair(S)
         IN  AfterDeleteBookAuthors(delete_orphaned_author(R.db, ba), S \ {ba})

\* session.delete(book_author) for every row of S, then flush
FlushDeleteBookAuthors(D, S) ==
    AfterDeleteBookAuthors(Ok([D EXCEPT !.book_authors = @ \ S]), S)

FirstItem(S) == CHOOSE x \in S : \A y \in S :
                    x.book_id < y.book_id
                    \/ (x.book_id = y.book_id /\ x.order_id <= y.order_id)

RECURSIVE AfterDeleteOrderItems(_, _)
AfterDeleteOrderItems(R, S) ==
    IF S = {} \/ R.err # "none" THEN R
    ELSE LET oi == FirstItem(S)
         IN  AfterDeleteOrderItems(delete_orphaned_order(R.db, oi), S \ {oi})

\* session.delete(order_item) for every row of S, then flush
FlushDeleteOrderItems(D, S) ==
    AfterDeleteOrderItems(Ok([D EXCEPT !.order_items = @ \ S]), S)

\* session.delete(name): Name.customer is a plain relationship, so the unit
\* of work first nulls customers.name_id of a loaded child (NOT NULL), then
\* emits the DELETE, which the RESTRICT foreign keys may refuse.
\* a name delete that nothing restricts
OrmDeleteName_unrestricted(D, n) == Ok([D EXCEPT !.names = Remove(@, n)])

OrmDeleteName(D, n) ==
    IF \E c \in DOMAIN D.customers : D.customers[c].name_id = n
    THEN Fail(D, "IntegrityError")
    ELSE SqlDeleteName(D, n)

\* session.delete(author): cascade "all, delete-orphan" on Author.book_authors
\* and on Author.name; the junction rows go first, then the author, then the
\* name.  A DELETE that matches no row is accepted (confirm_deleted_rows).
OrmDeleteAuthor(D, a) ==
    LET S == {ba \in D.book_authors : ba[2] = a}
        n == D.authors[a]
        R1 == FlushDeleteBookAuthors(D, S)
    IN  IF R1.err # "none" THEN R1
        ELSE OrmDeleteName(SqlDeleteAuthor(R1.db, a).db, n)

\* session.delete(book) with S the loaded Book.book_authors collection:
\* cascade "all, delete-orphan" on Book.book_authors; Book.order_items has no
\* delete cascade, so the unit of work tries to blank out the primary-key
\* column order_items.book_id of each child and raises.
OrmDeleteBook(D, b, S) ==
    IF \E oi \in D.order_items : oi.book_id = b
    THEN Fail(D, "AssertionError")
    ELSE LET R1 == FlushDeleteBookAuthors(D, S)
         IN  IF R1.err # "none" THEN R1 ELSE SqlDeleteBook(R1.db, b)

\* session.delete(customer): cascade "all, delete-orphan" on Customer.name;
\* the customer row goes first (listener after it), then the name.
OrmDeleteCustomer(D, c) ==
    LET row == D.customers[c]
        R1 == SqlDeleteCustomer(D, c)
    IN  IF R1.err # "none" THEN R1
        ELSE LET R2 == delete_orphaned_address(R1.db, row)
             IN  IF R2.err # "none" THEN R2 ELSE OrmDeleteName(R2.db, row.name_id)

\* session.delete(order): cascade "all, delete-orphan" on Order.order_items
OrmDeleteOrder(D, o) ==
    LET R1 == FlushDeleteOrderItems(D, {oi \in D.order_items : oi.order_id = o})
    IN  IF R1.err # "none" THEN R1 ELSE SqlDeleteOrder(R1.db, o)

(***************************************************************************)
(* Error handling of a request: the transaction is rolled back to the last *)
(* committed state D0 (by handle_errors, or by the session teardown for    *)
(* the exceptions it does not roll back itself) and a status is returned.  *)
(***************************************************************************)
\* error handling that keeps the failed transaction's writes
handle_errors_no_rollback(D0, R) == R.db

\* error handling in which only the branches of handle_errors that call
\* db.session.rollback() undo the flushed rows: the writes flushed before an
\* abort(404) are kept
handle_errors_keeps_aborted(D0, R) ==
    IF R.err \in {"none", "NotFound"} THEN R.db ELSE D0

handle_errors(D0, R) == IF R.err = "none" THEN R.db ELSE D0

StatusOf(err, ok) ==
    CASE err = "none" -> ok
      [] err = "NotFound" -> 404
      [] err \in {"IntegrityError", "BadRequest", "ValueError"} -> 400
      [] OTHER -> 500

NameRefs(D) == {D.authors[a] : a \in DOMAIN D.authors}
                   \cup {D.customers[c].name_id : c \in DOMAIN D.customers}
AddressRefs(D) == {D.customers[c].address_id : c \in DOMAIN D.customers} \ {NULL}

\* what the request removed from the committed state (gone) and which rows it
\* left behind without the reference they had before it (orphaned)
Effect(D0, D1) ==
    [gone |-> [names |-> DOMAIN D0.names \ DOMAIN D1.names,
               authors |-> DOMAIN D0.authors \ DOMAIN D1.authors,
               books |-> DOMAIN D0.books \ DOMAIN D1.books,
               addresses |-> D0.addresses \ D1.addresses,
               customers |-> DOMAIN D0.customers \ DOMAIN D1.customers,
               orders |-> DOMAIN D0.orders \ DOMAIN D1.orders,
               book_authors |-> D0.book_authors \ D1.book_authors,
               order_items |-> {<<oi.book_id, oi.order_id>> : oi \in D0.order_items}
                   \ {<<oi.book_id, oi.order_id>> : oi \in D1.order_items}],
     orphaned |-> [names |-> (DOMAIN D1.names \cap NameRefs(D0)) \ NameRefs(D1),
                   addresses |-> (D1.addresses \cap AddressRefs(D0))
                                     \ AddressRefs(D1)],
     nulled |-> {c \in DOMAIN D0.customers \cap DOMAIN D1.customers :
                    /\ D0.customers[c].address_id # NULL
                    /\ D1.customers[c].address_id = NULL}]

\* the end of a request whose last transaction ran R on the committed state
\* D0: it is committed if R succeeded.  The request had sent COMMIT
\* `committed' times before, and ran `after_commit' store operations
\* (db.session.get, add, delete) after its first COMMIT.
FinishSplit(op, id, D0, R, ok, committed, after_commit) ==
    LET D1 == handle_errors(D0, R)
    IN  /\ Store(D1)
        /\ last' = [op |-> op, status |-> StatusOf(R.err, ok), id |-> id,
                    effect |-> Effect(D0, D1),
                    commits |-> committed + (IF R.err = "none" THEN 1 ELSE 0),
                    after_commit |-> after_commit]
        /\ open' = open

\* a request with one db.session.commit(), as its last store operation
Finish(op, id, D0, R, ok) == FinishSplit(op, id, D0, R, ok, 0, 0)

(***************************************************************************)
(* Books and authors.                                                      *)
(***************************************************************************)
FirstId(S) == CHOOSE x \in S : \A y \in S : x <= y

\* an author lookup that links a new Author to any Name row with the wanted
\* value instead of creating a Name row of its own
fetch_or_create_author_shares_name(D, raw) ==
    LET matches == {a \in DOMAIN D.authors : D.names[D.authors[a]] = raw}
        same == {n \in DOMAIN D.names : D.names[n] = title(raw)}
        a == D.seq.authors + 1
    IN  IF matches # {}
        THEN [db |-> D, err |-> "none", author |-> FirstId(matches)]
        ELSE [db |-> [D EXCEPT !.names = IF same # {} THEN @
                                         ELSE Put(@, D.seq.names + 1, title(raw)),
                               !.authors = Put(@, a, IF same # {} THEN FirstId(same)
                                                     ELSE D.seq.names + 1),
                               !.seq.names = IF same # {} THEN @ ELSE @ + 1,
                               !.seq.authors = a],
              err |-> IF (same = {} /\ D.seq.names + 1 > MaxNames) \/ a > MaxAuthors
                      THEN "bound" ELSE "none",
              author |-> a]

\* utils/match_instances.py: the payload name is compared as given, the new
\* Name row stores the title-cased value.
fetch_or_create_author(D, raw) ==
    LET matches == {a \in DOMAIN D.authors : D.names[D.authors[a]] = raw}
    IN  IF matches # {}
        THEN [db |-> D, err |-> "none", author |-> FirstId(matches)]
        ELSE LET n == D.seq.names + 1
                 a == D.seq.authors + 1
             IN  [db |-> [D EXCEPT !.names = Put(@, n, title(raw)),
                                   !.authors = Put(@, a, n),
                                   !.seq.names = n, !.seq.authors = a],
                  err |-> IF n > MaxNames \/ a > MaxAuthors THEN "bound" ELSE "none",
                  author |-> a]

RECURSIVE link_authors(_, _, _)
link_authors(R, b, authors_data) ==
    IF authors_data = <<>> \/ R.err # "none" THEN R
    ELSE LET F == fetch_or_create_author(R.db, Head(authors_data))
             ba == <<b, F.author>>
         IN  IF F.err # "none" THEN Fail(F.db, F.err)
             ELSE IF ba \in F.db.book_authors THEN Fail(F.db, "IntegrityError")
             ELSE link_authors(Ok([F.db EXCEPT !.book_authors = @ \cup {ba}]),
                               b, Tail(authors_data))

\* the loaded payload lists the fields in the order BookSchema declares them
SchemaOrder == <<"discontinued", "price">>

FieldOrders == {<<"discontinued", "price">>, <<"price", "discontinued">>}

\* Book.validate_price; the range 0..999.99 is checked by the schema before
validate_price(book, value) ==
    IF value = 0 /\ book.discontinued = TRUE THEN "ValueError" ELSE "none"

\* setattr(book, field, value) for the fields named in order; B.book is the
\* instance, each assignment runs the field's @validates function
RECURSIVE set_fields(_, _, _)
set_fields(B, order, data) ==
    IF order = << >> \/ B.err # "none" THEN B
    ELSE IF Head(order) = "price"
    THEN set_fields([book |-> [B.book EXCEPT !.price = data.price],
                     err |-> validate_price(B.book, data.price)],
                    Tail(order), data)
    ELSE set_fields([book |-> [B.book EXCEPT !.discontinued = data.discontinued],
                     err |-> "none"],
                    Tail(order), data)

\* Book(**book_data): on the new instance discontinued is None until it is
\* assigned, which validate_price treats like False
create_book_tx(D, authors_data, book_data) ==
    LET b == D.seq.books + 1
        B == set_fields([book |-> [price |-> 0, discontinued |-> FALSE],
                         err |-> "none"], book_data.order, book_data)
        D1 == [D EXCEPT !.books = Put(@, b, B.book), !.seq.books = b]
    IN  IF B.err # "none" THEN Fail(D, B.err)
        ELSE link_authors(Ok(D1), b, authors_data)

BookData(BookPrices, Flags) ==
    [price : BookPrices, discontinued : Flags, order : {SchemaOrder}]

create_book(AuthorLists, BookFields) ==
    \E authors_data \in AuthorLists, book_data \in BookFields :
        LET R == create_book_tx(Db, authors_data, book_data)
        IN  /\ seq.books < MaxBooks
            /\ R.err # "bound"
            /\ Finish("create_book", seq.books + 1, Db, R, 201)

\* book.authors is a relationship without order_by: the database may return
\* the Book's authors in any order
AuthorsOf(D, b) == {a \in DOMAIN D.authors : <<b, a>> \in D.book_authors}

Orderings(S) ==
    {s \in [1..Cardinality(S) -> S] : \A i, j \in DOMAIN s : i # j => s[i] # s[j]}

\* the loop of update_book over enumerate(updated_authors): entry i renames
\* the i-th current author in place, an entry past the current list is
\* fetched or created and linked unless the Book already has that author
RECURSIVE update_authors(_, _, _, _, _)
update_authors(R, b, current_authors, updated_authors, i) ==
    IF i > Len(updated_authors) \/ R.err # "none" THEN R
    ELSE IF i <= Len(current_authors)
    THEN update_authors(
           Ok([R.db EXCEPT !.names[R.db.authors[current_authors[i]]] =
                               title(updated_authors[i])]),
           b, current_authors, updated_authors, i + 1)
    ELSE LET F == fetch_or_create_author(R.db, updated_authors[i])
         IN  IF F.err # "none" THEN Fail(F.db, F.err)
             ELSE update_authors(
                    Ok([F.db EXCEPT !.book_authors = @ \cup {<<b, F.author>>}]),
                    b, current_authors, updated_authors, i + 1)

\* updated_book is the loaded payload: fields is the set of keys present
update_book_tx(D, book_id, updated_book, current_authors) ==
    IF book_id \notin DOMAIN D.books THEN Fail(D, "NotFound")
    ELSE LET R == IF "authors" \in updated_book.fields
                  THEN update_authors(Ok(D), book_id, current_authors,
                                      updated_book.authors, 1)
                  ELSE Ok(D)
             order == IF "discontinued" \in updated_book.fields
                      THEN SelectSeq(updated_book.order,
                                     LAMBDA f : f \in updated_book.fields)
                      ELSE IF "price" \in updated_book.fields THEN <<"price">>
                      ELSE << >>
         IN  IF R.err # "none" THEN R
             ELSE LET B == set_fields([book |-> R.db.books[book_id], err |-> "none"],
                                      order, updated_book)
                  IN  IF B.err # "none" THEN Fail(R.db, B.err)
                      ELSE Ok([R.db EXCEPT !.books[book_id] = B.book])

\* PUT carries every field, PATCH any of them
BookPayloads(AuthorLists, BookPrices) ==
    [fields : {{"authors", "price"}, {"authors"}},
     authors : AuthorLists, price : BookPrices]
        \cup [fields : {{"price"}}, authors : {<< >>}, price : BookPrices]

update_book(Payloads) ==
    \E book_id \in BookIds, updated_book \in Payloads :
        \E current_authors \in Orderings(AuthorsOf(Db, book_id)) :
            LET R == update_book_tx(Db, book_id, updated_book, current_authors)
            IN  /\ R.err # "bound"
                /\ Finish("update_book", book_id, Db, R, 200)

delete_book_tx(D, book_id) ==
    IF book_id \notin DOMAIN D.books THEN Fail(D, "NotFound")
    ELSE LET loaded == {ba \in D.book_authors : ba[1] = book_id}
             R1 == FlushDeleteBookAuthors(D, loaded)
         IN  IF R1.err # "none" THEN R1
             ELSE LET D1 == R1.db
                      \* book.authors is first read here, after the flush
                      book_authors_now == {a \in DOMAIN D1.authors :
                                              <<book_id, a>> \in D1.book_authors}
                      orphaned == {a \in book_authors_now :
                                      ~\E r \in D1.book_authors : r[2] = a}
                      D2 == [D1 EXCEPT
                               !.authors = [a \in DOMAIN @ \ orphaned |-> @[a]],
                               !.names = [n \in DOMAIN @ \
                                   {D1.authors[a] : a \in orphaned} |-> @[n]]]
                  IN  OrmDeleteBook(D2, book_id, loaded)

delete_book ==
    \E book_id \in BookIds :
        Finish("delete_book", book_id, Db, delete_book_tx(Db, book_id), 200)

(***************************************************************************)
(* Direct unit-of-work operations on the session (one transaction each).   *)
(***************************************************************************)
session_delete_book_authors ==
    \E S \in SUBSET book_authors :
        /\ S # {}
        /\ Finish("session_delete_book_authors", FirstPair(S)[2], Db,
                  FlushDeleteBookAuthors(Db, S), 200)

session_delete_book ==
    \E b \in DOMAIN books :
        Finish("session_delete_book", b, Db,
               OrmDeleteBook(Db, b, {ba \in book_authors : ba[1] = b}), 200)

session_delete_author ==
    \E a \in DOMAIN authors :
        Finish("session_delete_author", a, Db, OrmDeleteAuthor(Db, a), 200)

session_delete_name ==
    \E n \in DOMAIN names :
        Finish("session_delete_name", n, Db, OrmDeleteName(Db, n), 200)

(***************************************************************************)
(* Addresses and customers.                                                *)
(***************************************************************************)
create_address ==
    /\ seq.addresses < MaxAddresses
    /\ LET x == seq.addresses + 1
       IN  Finish("create_address", x, Db,
                  Ok([Db EXCEPT !.addresses = @ \cup {x}, !.seq.addresses = x]), 201)

\* INSERT or UPDATE of a customers row: UNIQUE(email), FK address_id
CheckCustomerRow(D, c) ==
    LET row == D.customers[c]
    IN  IF \/ \E c2 \in DOMAIN D.customers \ {c} : D.customers[c2].email = row.email
           \/ (row.address_id # NULL /\ row.address_id \notin D.addresses)
        THEN Fail(D, "IntegrityError")
        ELSE Ok(D)

create_customer_tx(D, raw, email, address_id) ==
    LET n == D.seq.names + 1
        c == D.seq.customers + 1
        D1 == [D EXCEPT !.names = Put(@, n, title(raw)), !.seq.names = n]
        D2 == [D1 EXCEPT !.customers = Put(@, c, [email |-> email, name_id |-> n,
                                                 address_id |-> address_id]),
                         !.seq.customers = c]
    IN  CheckCustomerRow(D2, c)

create_customer(CustomerNames, CustomerEmails, CustomerAddresses) ==
    \E raw \in CustomerNames, email \in CustomerEmails,
       address_id \in CustomerAddresses :
        /\ seq.customers < MaxCustomers
        /\ seq.names < MaxNames
        /\ Finish("create_customer", seq.customers + 1, Db,
                  create_customer_tx(Db, raw, email, address_id), 201)

\* an update that runs the address cleanup for the address it leaves
update_customer_tx_with_cleanup(D, customer_id, updated_customer) ==
    IF customer_id \notin DOMAIN D.customers THEN Fail(D, "NotFound")
    ELSE LET row == D.customers[customer_id]
             row2 == IF "address_id" \in updated_customer.fields
                     THEN [row EXCEPT !.address_id = updated_customer.address_id]
                     ELSE row
             R == CheckCustomerRow([D EXCEPT !.customers[customer_id] = row2],
                                   customer_id)
         IN  IF R.err # "none" \/ row2.address_id = row.address_id THEN R
             ELSE delete_orphaned_address(R.db, row)

\* updated_customer is the loaded payload: fields is the set of keys present
update_customer_tx(D, customer_id, updated_customer) ==
    IF customer_id \notin DOMAIN D.customers THEN Fail(D, "NotFound")
    ELSE LET row == D.customers[customer_id]
             D1 == IF "name" \in updated_customer.fields
                   THEN [D EXCEPT !.names[row.name_id] = title(updated_customer.name)]
                   ELSE D
             row1 == IF "email" \in updated_customer.fields
                     THEN [row EXCEPT !.email = updated_customer.email] ELSE row
             row2 == IF "address_id" \in updated_customer.fields
                     THEN [row1 EXCEPT !.address_id = updated_customer.address_id]
                     ELSE row1
         IN  CheckCustomerRow([D1 EXCEPT !.customers[customer_id] = row2], customer_id)

\* a key that is absent from the payload has no value: "" and NULL stand for it
CustomerPayloads(CustomerNames) ==
    {p \in [fields : (SUBSET {"name", "email", "address_id"}) \ {{}},
            name : CustomerNames \cup {""}, email : Emails \cup {""},
            address_id : AddressIds \cup {NULL}] :
        /\ ("name" \in p.fields) <=> (p.name # "")
        /\ ("email" \in p.fields) <=> (p.email # "")
        /\ ("address_id" \notin p.fields) => (p.address_id = NULL)}

update_customer(CustomerNames) ==
    \E customer_id \in CustomerIds,
       updated_customer \in CustomerPayloads(CustomerNames) :
        Finish("update_customer", customer_id, Db,
               update_customer_tx(Db, customer_id, updated_customer), 200)

delete_customer_tx(D, customer_id) ==
    IF customer_id \notin DOMAIN D.customers THEN Fail(D, "NotFound")
    ELSE OrmDeleteCustomer(D, customer_id)

delete_customer ==
    \E customer_id \in CustomerIds :
        Finish("delete_customer", customer_id, Db,
               delete_customer_tx(Db, customer_id), 200)

\* Address.customers is passive_deletes: the database nulls the references
delete_address_tx(D, address_id) ==
    IF address_id \notin D.addresses THEN Fail(D, "NotFound")
    ELSE SqlDeleteAddress(D, address_id)

delete_address ==
    \E address_id \in AddressIds :
        Finish("delete_address", address_id, Db,
               delete_address_tx(Db, address_id), 200)

(***************************************************************************)
(* Orders.                                                                 *)
(***************************************************************************)
MaxPriceTotal == 999999

Items(Q) == [book_id : BookIds, quantity : Q]

OrderItem(order_id, book_id, quantity) ==
    [book_id |-> book_id, order_id |-> order_id, quantity |-> quantity]

\* the loop of create_order over order_items_data; R carries total_price
RECURSIVE create_items(_, _, _)
create_items(R, order_id, order_items_data) ==
    IF order_items_data = <<>> \/ R.err # "none" THEN R
    ELSE LET item == Head(order_items_data)
         IN  IF item.book_id \notin DOMAIN R.db.books
             THEN [R EXCEPT !.err = "NotFound"]
             ELSE IF \E oi \in R.db.order_items :
                        oi.order_id = order_id /\ oi.book_id = item.book_id
             THEN [R EXCEPT !.err = "IntegrityError"]
             ELSE create_items(
                    [db |-> [R.db EXCEPT !.order_items = @ \cup
                               {OrderItem(order_id, item.book_id, item.quantity)}],
                     err |-> "none",
                     total_price |-> R.total_price
                         + R.db.books[item.book_id].price * item.quantity],
                    order_id, Tail(order_items_data))

\* create_order without the check for an empty item list
create_order_tx_accepts_empty(D, customer_id, order_items_data, price_total) ==
    IF customer_id \notin DOMAIN D.customers THEN Fail(D, "NotFound")
    ELSE LET o == D.seq.orders + 1
             D1 == [D EXCEPT !.orders = Put(@, o, [customer_id |-> customer_id,
                                                  price_total |-> price_total]),
                             !.seq.orders = o]
             R == create_items([db |-> D1, err |-> "none", total_price |-> 0],
                               o, order_items_data)
         IN  IF R.err # "none" THEN Fail(R.db, R.err)
             ELSE Ok([R.db EXCEPT !.orders[o].price_total = R.total_price])

\* create_order that keeps the price_total of the payload
create_order_tx_keeps_client_total(D, customer_id, order_items_data, price_total) ==
    IF customer_id \notin DOMAIN D.customers THEN Fail(D, "NotFound")
    ELSE IF order_items_data = <<>> THEN Fail(D, "BadRequest")
    ELSE LET o == D.seq.orders + 1
             D1 == [D EXCEPT !.orders = Put(@, o, [customer_id |-> customer_id,
                                                  price_total |-> price_total]),
                             !.seq.orders = o]
             R == create_items([db |-> D1, err |-> "none", total_price |-> 0],
                               o, order_items_data)
         IN  IF R.err # "none" THEN Fail(R.db, R.err) ELSE Ok(R.db)

\* Order(**order_data) stores the price_total of the payload (the schema has
\* checked its range); the handler overwrites it after the loop over the items
create_order_tx(D, customer_id, order_items_data, price_total) ==
    IF customer_id \notin DOMAIN D.customers THEN Fail(D, "NotFound")
    ELSE IF order_items_data = <<>> THEN Fail(D, "BadRequest")
    ELSE LET o == D.seq.orders + 1
             D1 == [D EXCEPT !.orders = Put(@, o, [customer_id |-> customer_id,
                                                  price_total |-> price_total]),
                             !.seq.orders = o]
             R == create_items([db |-> D1, err |-> "none", total_price |-> 0],
                               o, order_items_data)
         IN  IF R.err # "none" THEN Fail(R.db, R.err)
             ELSE IF R.total_price > MaxPriceTotal THEN Fail(R.db, "ValueError")
             ELSE Ok([R.db EXCEPT !.orders[o].price_total = R.total_price])

create_order(ItemLists, PriceTotals) ==
    \E customer_id \in CustomerIds, order_items_data \in ItemLists,
       price_total \in PriceTotals :
        /\ seq.orders < MaxOrders
        /\ Finish("create_order", seq.orders + 1, Db,
                  create_order_tx(Db, customer_id, order_items_data, price_total),
                  201)

\* the loop of update_order over updated_items; loaded is order.order_items
\* as first read; R carries total_price and checked_books
RECURSIVE update_items(_, _, _, _)
update_items(R, order_id, loaded, updated_items) ==
    IF updated_items = <<>> \/ R.err # "none" THEN R
    ELSE LET item == Head(updated_items)
             book_id == item.book_id
             existing_item == \E oi \in loaded : oi.book_id = book_id
         IN  IF ~existing_item
             THEN IF book_id \notin DOMAIN R.db.books
                  THEN [R EXCEPT !.err = "NotFound"]
                  ELSE IF book_id \in R.checked_books
                  THEN [R EXCEPT !.err = "BadRequest"]
                  ELSE update_items(
                         [db |-> [R.db EXCEPT !.order_items = @ \cup
                                    {OrderItem(order_id, book_id, item.quantity)}],
                          err |-> "none",
                          total_price |-> R.total_price
                              + R.db.books[book_id].price * item.quantity,
                          checked_books |-> R.checked_books \cup {book_id}],
                         order_id, loaded, Tail(updated_items))
             ELSE update_items(
                    [db |-> [R.db EXCEPT !.order_items =
                               {IF oi.order_id = order_id /\ oi.book_id = book_id
                                THEN [oi EXCEPT !.quantity = item.quantity]
                                ELSE oi : oi \in @}],
                     err |-> "none",
                     total_price |-> R.total_price
                         + R.db.books[book_id].price * item.quantity,
                     checked_books |-> R.checked_books \cup {book_id}],
                    order_id, loaded, Tail(updated_items))

\* a check that lets every customer_id pass
customer_id_changed_unchecked(order, updated_order) == FALSE

\* "Prevent changing of customer_id"
customer_id_changed(order, updated_order) ==
    /\ "customer_id" \in updated_order.fields
    /\ updated_order.customer_id # order.customer_id

\* updated_order is the loaded payload: fields is the set of keys present
update_order_tx(D, order_id, updated_order) ==
    IF order_id \notin DOMAIN D.orders THEN Fail(D, "NotFound")
    ELSE IF customer_id_changed(D.orders[order_id], updated_order)
    THEN Fail(D, "BadRequest")
    ELSE IF "order_items" \notin updated_order.fields THEN Fail(D, "BadRequest")
    ELSE IF updated_order.order_items = <<>> THEN Fail(D, "BadRequest")
    ELSE LET loaded == {oi \in D.order_items : oi.order_id = order_id}
             R == update_items([db |-> D, err |-> "none", total_price |-> 0,
                                checked_books |-> {}],
                               order_id, loaded, updated_order.order_items)
         IN  IF R.err # "none" THEN Fail(R.db, R.err)
             ELSE LET old == {oi \in R.db.order_items :
                                 /\ oi.order_id = order_id
                                 /\ oi.book_id \notin R.checked_books}
                      R2 == FlushDeleteOrderItems(R.db, old)
                  IN  IF R2.err # "none" THEN R2
                      ELSE IF R.total_price > MaxPriceTotal
                      THEN Fail(R2.db, "ValueError")
                      ELSE IF order_id \notin DOMAIN R2.db.orders THEN R2
                      ELSE Ok([R2.db EXCEPT
                                 !.orders[order_id].price_total = R.total_price])

ItemsPayloads(ItemLists) ==
    [fields : {{"order_items"}}, customer_id : {NULL}, order_items : ItemLists]

OrderPayloads(ItemLists) ==
    ItemsPayloads(ItemLists)
    \cup [fields : {{"customer_id", "order_items"}}, customer_id : CustomerIds,
          order_items : ItemLists]
    \cup [fields : {{"customer_id"}}, customer_id : CustomerIds, order_items : {<< >>}]

update_order(Payloads) ==
    \E order_id \in OrderIds, updated_order \in Payloads :
        Finish("update_order", order_id, Db,
               update_order_tx(Db, order_id, updated_order), 200)

\* delete_order commits the item deletes, then looks the order up again
\* (db.session.get, one store operation after the commit) and, if the
\* listener left it, deletes it and commits a second time
delete_order ==
    \E order_id \in OrderIds :
        IF order_id \notin DOMAIN orders
        THEN Finish("delete_order", order_id, Db, Fail(Db, "NotFound"), 200)
        ELSE LET R1 == FlushDeleteOrderItems(Db,
                           {oi \in order_items : oi.order_id = order_id})
                 D1 == handle_errors(Db, R1)
             IN  IF R1.err # "none" THEN Finish("delete_order", order_id, Db, R1, 200)
                 ELSE IF order_id \notin DOMAIN D1.orders
                 THEN FinishSplit("delete_order", order_id, Db, R1, 200, 0, 1)
                 ELSE FinishSplit("delete_order", order_id, D1,
                                  OrmDeleteOrder(D1, order_id), 200, 1, 2)

session_delete_order_items ==
    \E S \in SUBSET order_items :
        /\ S # {}
        /\ Finish("session_delete_order_items", FirstItem(S).order_id, Db,
                  FlushDeleteOrderItems(Db, S), 200)

(***************************************************************************)
(* Deletes of several rows in one transaction, taken in a given order.     *)
(* In one flush the DELETE statements of all the rows come before the      *)
(* after_delete dispatches; with a flush per row each DELETE is followed   *)
(* by its dispatch.                                                        *)
(***************************************************************************)
Range(s) == {s[i] : i \in DOMAIN s}

\* largest number of rows deleted in one transaction
MaxDeleted == 2

RowSets(S) == {T \in SUBSET S : T # {} /\ Cardinality(T) <= MaxDeleted}

RECURSIVE DispatchBookAuthorsIn(_, _)
DispatchBookAuthorsIn(R, order) ==
    IF order = << >> \/ R.err # "none" THEN R
    ELSE DispatchBookAuthorsIn(delete_orphaned_author(R.db, Head(order)),
                               Tail(order))

DeleteBookAuthorsIn(D, order) ==
    DispatchBookAuthorsIn(Ok([D EXCEPT !.book_authors = @ \ Range(order)]), order)

RECURSIVE DeleteBookAuthorsOneByOne(_, _)
DeleteBookAuthorsOneByOne(R, order) ==
    IF order = << >> \/ R.err # "none" THEN R
    ELSE DeleteBookAuthorsOneByOne(
             delete_orphaned_author(
                 [R.db EXCEPT !.book_authors = @ \ {Head(order)}], Head(order)),
             Tail(order))

RECURSIVE DispatchOrderItemsIn(_, _)
DispatchOrderItemsIn(R, order) ==
    IF order = << >> \/ R.err # "none" THEN R
    ELSE DispatchOrderItemsIn(delete_orphaned_order(R.db, Head(order)),
                              Tail(order))

DeleteOrderItemsIn(D, order) ==
    DispatchOrderItemsIn(Ok([D EXCEPT !.order_items = @ \ Range(order)]), order)

RECURSIVE DeleteOrderItemsOneByOne(_, _)
DeleteOrderItemsOneByOne(R, order) ==
    IF order = << >> \/ R.err # "none" THEN R
    ELSE DeleteOrderItemsOneByOne(
             delete_orphaned_order(
                 [R.db EXCEPT !.order_items = @ \ {Head(order)}], Head(order)),
             Tail(order))

\* the DELETE statements of the customers of one flush
RECURSIVE SqlDeleteCustomersIn(_, _)
SqlDeleteCustomersIn(R, order) ==
    IF order = << >> \/ R.err # "none" THEN R
    ELSE SqlDeleteCustomersIn(SqlDeleteCustomer(R.db, Head(order)), Tail(order))

\* rows holds the customers as loaded before the flush
RECURSIVE DispatchCustomersIn(_, _, _)
DispatchCustomersIn(R, rows, order) ==
    IF order = << >> \/ R.err # "none" THEN R
    ELSE DispatchCustomersIn(delete_orphaned_address(R.db, rows[Head(order)]),
                             rows, Tail(order))

\* the names of the deleted customers go last (cascade on Customer.name)
RECURSIVE DeleteNamesIn(_, _, _)
DeleteNamesIn(R, rows, order) ==
    IF order = << >> \/ R.err # "none" THEN R
    ELSE DeleteNamesIn(OrmDeleteName(R.db, rows[Head(order)].name_id),
                       rows, Tail(order))

DeleteCustomersIn(D, order) ==
    DeleteNamesIn(
        DispatchCustomersIn(SqlDeleteCustomersIn(Ok(D), order), D.customers, order),
        D.customers, order)

RECURSIVE DeleteCustomersOneByOne(_, _)
DeleteCustomersOneByOne(R, order) ==
    IF order = << >> \/ R.err # "none" THEN R
    ELSE DeleteCustomersOneByOne(OrmDeleteCustomer(R.db, Head(order)), Tail(order))

\* session.delete(customer) for every customer of S, then flush
session_delete_customers ==
    \E S \in RowSets(DOMAIN customers) : \E order \in Orderings(S) :
        Finish("session_delete_customers", order[1], Db,
               DeleteCustomersIn(Db, order), 200)

(***************************************************************************)
(* Two requests at a time.  Each request has its own session and database  *)
(* connection; db.session.commit() first flushes (the DELETE statements    *)
(* and the after_delete listeners run on the connection) and then sends    *)
(* COMMIT.  At READ COMMITTED, the default isolation level of PostgreSQL,  *)
(* a statement reads the rows committed so far and the transaction's own   *)
(* writes, and a DELETE waits for a row another open transaction deleted.  *)
(* The code sets no isolation level and takes no lock.                     *)
(***************************************************************************)
Transactions == {1, 2}

Idle == [pc |-> "idle"]

Quiescent == \A t \in Transactions : open[t] = Idle

\* the rows of D that the row set g (shaped like Effect(..).gone) removes
ApplyDeletes(D, g) ==
    [D EXCEPT !.names = [n \in DOMAIN @ \ g.names |-> @[n]],
              !.authors = [a \in DOMAIN @ \ g.authors |-> @[a]],
              !.books = [b \in DOMAIN @ \ g.books |-> @[b]],
              !.addresses = @ \ g.addresses,
              !.customers = [c \in DOMAIN @ \ g.customers |-> @[c]],
              !.orders = [o \in DOMAIN @ \ g.orders |-> @[o]],
              !.book_authors = @ \ g.book_authors,
              !.order_items = {oi \in @ :
                                 <<oi.book_id, oi.order_id>> \notin g.order_items}]

\* some row of g is deleted by another transaction that has not committed
Blocked(t, g) ==
    \E u \in Transactions \ {t} :
        /\ open[u] # Idle
        /\ \E k \in DOMAIN g : g[k] \cap open[u].gone[k] # {}

\* the flush of db.session.commit() in request t: the statements of R ran on
\* t's connection against the committed rows; nothing is committed yet
flush(t, op, id, R) ==
    LET g == Effect(Db, R.db).gone
    IN  /\ open[t] = Idle
        /\ ~Blocked(t, g)
        /\ IF R.err = "none"
           THEN /\ open' = [open EXCEPT ![t] = [pc |-> "flushed", op |-> op,
                                                id |-> id, gone |-> g]]
                /\ UNCHANGED last
           ELSE /\ open' = open
                /\ last' = [op |-> op, status |-> StatusOf(R.err, 200), id |-> id,
                            effect |-> Effect(Db, Db),
                            commits |-> 0, after_commit |-> 0]
        /\ UNCHANGED <<names, authors, addresses, customers, books,
                       book_authors, orders, order_items, seq>>

\* the COMMIT of db.session.commit() in request t
commit(t) ==
    /\ open[t] # Idle
    /\ LET D1 == ApplyDeletes(Db, open[t].gone)
       IN  /\ Store(D1)
           /\ last' = [op |-> open[t].op, status |-> 200, id |-> open[t].id,
                       effect |-> Effect(Db, D1),
                       commits |-> 1, after_commit |-> 0]
    /\ open' = [open EXCEPT ![t] = Idle]

concurrent_delete_customer(t) ==
    \E customer_id \in DOMAIN customers :
        flush(t, "delete_customer", customer_id, delete_customer_tx(Db, customer_id))

concurrent_delete_book(t) ==
    \E book_id \in DOMAIN books :
        flush(t, "delete_book", book_id, delete_book_tx(Db, book_id))

concurrent_delete_order_item(t) ==
    \E oi \in order_items :
        flush(t, "session_delete_order_items", oi.order_id,
              FlushDeleteOrderItems(Db, {oi}))

(***************************************************************************)
(* Specifications.                                                         *)
(***************************************************************************)
Init ==
    /\ names = << >>
    /\ authors = << >>
    /\ addresses = {}
    /\ customers = << >>
    /\ books = << >>
    /\ book_authors = {}
    /\ orders = << >>
    /\ order_items = {}
    /\ seq = [names |-> 0, authors |-> 0, addresses |-> 0, customers |-> 0,
              books |-> 0, orders |-> 0]
    /\ last = [op |-> "init", status |-> 0, id |-> 0, effect |-> Effect(Db, Db),
               commits |-> 0, after_commit |-> 0]
    /\ open = [t \in Transactions |-> Idle]

NextCatalog ==
    \/ create_book(SeqsUpTo(RawNames, MaxListLen), BookData({1}, {FALSE}))
    \/ delete_book
    \/ session_delete_book_authors
    \/ session_delete_book
    \/ session_delete_author
    \/ session_delete_name

SpecCatalog == Init /\ [][NextCatalog]_vars

NextCustomers ==
    \/ create_address
    \/ create_customer({"Neil"}, Emails, AddressIds \cup {NULL})
    \/ update_customer({"terry"})
    \/ delete_customer
    \/ delete_address

SpecCustomers == Init /\ [][NextCustomers]_vars

\* orders over a catalog of single-author books
NextOrders ==
    \/ create_customer({"Neil"}, {"john@email.com"}, {NULL})
    \/ create_book({<<"Neil">>}, BookData(Prices, {FALSE}))
    \/ create_order(SeqsUpTo(Items(Quantities), MaxListLen), {0})
    \/ update_order(OrderPayloads(SeqsUpTo(Items(Quantities), MaxListLen)))
    \/ delete_order
    \/ session_delete_order_items

SpecOrders == Init /\ [][NextOrders]_vars

\* orders of single copies of books of one price
NextOrderItems ==
    \/ create_customer({"Neil"}, {"john@email.com"}, {NULL})
    \/ create_book({<<"Neil">>}, BookData({1}, {FALSE}))
    \/ create_order(SeqsUpTo(Items({1}), MaxListLen), {0})
    \/ update_order(ItemsPayloads(SeqsUpTo(Items({1}), MaxListLen)))
    \/ delete_order
    \/ session_delete_order_items

SpecOrderItems == Init /\ [][NextOrderItems]_vars

\* names owned by authors and by customers
NextNames ==
    \/ create_book({<<"Terry">>, <<"Neil">>}, BookData({1}, {FALSE}))
    \/ create_customer({"Neil"}, Emails, {NULL})
    \/ delete_customer
    \/ session_delete_book_authors
    \/ session_delete_name

SpecNames == Init /\ [][NextNames]_vars

\* deletes in a catalog whose books may be on an order
NextCleanup ==
    \/ create_customer({"Neil"}, {"john@email.com"}, {NULL})
    \/ create_book({<<"Terry">>, <<"Neil">>}, BookData({1}, {FALSE}))
    \/ create_order(SeqsUpTo(Items({1}), 1), {0})
    \/ delete_book
    \/ session_delete_book_authors
    \/ session_delete_book
    \/ session_delete_author

SpecCleanup == Init /\ [][NextCleanup]_vars

\* deletes of books, with or without authors, that may be on an order
NextRestrict ==
    \/ create_customer({"Neil"}, {"john@email.com"}, {NULL})
    \/ create_book({<< >>, <<"Neil">>, <<"Terry", "Neil">>}, BookData({1}, {FALSE}))
    \/ create_order(SeqsUpTo(Items({1}), 1), {0})
    \/ delete_book
    \/ session_delete_book_authors
    \/ session_delete_book
    \/ session_delete_author

SpecRestrict == Init /\ [][NextRestrict]_vars

\* customers with addresses that place and cancel orders
NextCustomerOrders ==
    \/ create_address
    \/ create_customer({"Neil"}, {"john@email.com"}, AddressIds \cup {NULL})
    \/ create_book({<<"Neil">>}, BookData({1}, {FALSE}))
    \/ create_order(SeqsUpTo(Items({1}), 1), {0})
    \/ delete_customer
    \/ delete_order

SpecCustomerOrders == Init /\ [][NextCustomerOrders]_vars

\* the request handlers that touch orders, books (here without authors) and
\* customers
NextOrderHandlers ==
    \/ create_customer({"Neil"}, {"john@email.com"}, {NULL})
    \/ create_book({<< >>}, BookData({1}, {FALSE}))
    \/ create_order(SeqsUpTo(Items({1}), 1), {0})
    \/ update_order(ItemsPayloads(SeqsUpTo(Items({1}), 2))
                       \cup OrderPayloads({<< >>}))
    \/ delete_order
    \/ delete_book
    \/ delete_customer

SpecOrderHandlers == Init /\ [][NextOrderHandlers]_vars

\* requests that fail after rows were flushed: a second customer with a taken
\* email, an order whose later item names a missing book
NextErrors ==
    \/ create_customer({"Neil"}, Emails, {NULL})
    \/ create_book({<< >>}, BookData({1}, {FALSE}))
    \/ create_order({<<[book_id |-> 1, quantity |-> 1]>>,
                     <<[book_id |-> 1, quantity |-> 1],
                       [book_id |-> 2, quantity |-> 1]>>}, {0})
    \/ update_order(ItemsPayloads(SeqsUpTo(Items({1}), 1)))
    \/ delete_order
    \/ delete_book
    \/ delete_customer

SpecErrors == Init /\ [][NextErrors]_vars

\* the requests that write books and authors
NextBooks ==
    \/ create_book(SeqsUpTo(RawNames, MaxListLen), BookData({1}, {FALSE}))
    \/ update_book(BookPayloads(SeqsUpTo(RawNames, MaxListLen), {1}))

SpecBooks == Init /\ [][NextBooks]_vars

\* a payload of update_book that carries price, discontinued or both, listed
\* in either order; a key that is absent has no value (0 and FALSE stand for it)
BookFieldPayloads(BookPrices, Flags) ==
    {p \in [fields : (SUBSET {"price", "discontinued"}) \ {{}},
            authors : {<< >>}, price : BookPrices \cup {0}, discontinued : Flags,
            order : FieldOrders] :
        /\ "price" \notin p.fields => p.price = 0
        /\ "discontinued" \notin p.fields => ~p.discontinued
        /\ p.fields # {"price", "discontinued"} => p.order = SchemaOrder}

\* books created and updated with any price and flag
NextBookFields ==
    \/ create_book({<<"Neil">>, <<"Terry">>},
                   [price : {0, 1}, discontinued : BOOLEAN, order : FieldOrders])
    \/ update_book(BookFieldPayloads({0, 1}, BOOLEAN))

SpecBookFields == Init /\ [][NextBookFields]_vars

\* addresses deleted under customers that have orders
NextAddressDelete ==
    \/ create_address
    \/ create_customer({"Neil"}, Emails, AddressIds \cup {NULL})
    \/ create_book({<< >>}, BookData({1}, {FALSE}))
    \/ create_order(SeqsUpTo(Items({1}), 1), {0})
    \/ delete_address

SpecAddressDelete == Init /\ [][NextAddressDelete]_vars

\* values of price_total a client may send: any amount the schema accepts
ClientTotals == {0, 5}

\* orders created and updated with a price_total chosen by the client
NextOrderTotals ==
    \/ create_customer({"Neil"}, {"john@email.com"}, {NULL})
    \/ create_book({<< >>}, BookData(Prices, {FALSE}))
    \/ create_order(SeqsUpTo(Items({1}), 2), ClientTotals)
    \/ update_order(OrderPayloads(SeqsUpTo(Items({1}), 1)))

SpecOrderTotals == Init /\ [][NextOrderTotals]_vars

\* orders of two customers, updated with a customer_id in the payload
NextOrderOwner ==
    \/ create_customer({"Neil"}, Emails, {NULL})
    \/ create_book({<< >>}, BookData({1}, {FALSE}))
    \/ create_order(SeqsUpTo(Items({1}), 1), {0})
    \/ update_order([fields : {{"customer_id", "order_items"}},
                     customer_id : CustomerIds,
                     order_items : [{1} -> Items(Quantities)]])

SpecOrderOwner == Init /\ [][NextOrderOwner]_vars

\* the requests that create, rename and delete the owners of Name rows
NextOwners ==
    \/ create_book({<<"Neil">>, <<"Terry", "Neil">>}, BookData({1}, {FALSE}))
    \/ update_book([fields : {{"authors"}}, authors : {<<"Neil">>, <<"Terry">>},
                    price : {1}])
    \/ delete_book
    \/ create_customer({"Neil"}, {"john@email.com"}, {NULL})
    \/ delete_customer

SpecOwners == Init /\ [][NextOwners]_vars

\* every kind of row is created and every delete handler runs
NextReferences ==
    \/ create_address
    \/ create_customer({"Neil"}, {"john@email.com"}, {1})
    \/ create_book({<<"Neil">>}, BookData({1}, {FALSE}))
    \/ create_order({<<[book_id |-> 1, quantity |-> 1]>>}, {0})
    \/ delete_address
    \/ delete_customer
    \/ delete_book
    \/ delete_order

SpecReferences == Init /\ [][NextReferences]_vars

\* sets of junction rows and of customers deleted in one transaction
NextDeleteSets ==
    \/ create_address
    \/ create_customer({"Neil"}, Emails, {1})
    \/ create_book({<<"Terry", "Neil">>}, BookData({1}, {FALSE}))
    \/ create_order({<<[book_id |-> 1, quantity |-> 1],
                       [book_id |-> 2, quantity |-> 1]>>}, {0})
    \/ session_delete_author
    \/ session_delete_customers

SpecDeleteSets == Init /\ [][NextDeleteSets]_vars

\* rows are created by one request at a time, deletes overlap
NextConcurrent ==
    \/ Quiescent /\ create_address
    \/ Quiescent /\ create_customer({"Neil"}, Emails,
                                    AddressIds)
    \/ Quiescent /\ create_book({<<"Neil">>}, BookData({1}, {FALSE}))
    \/ Quiescent /\ create_order({<<[book_id |-> 1, quantity |-> 1],
                                    [book_id |-> 2, quantity |-> 1]>>}, {0})
    \/ \E t \in Transactions : concurrent_delete_customer(t)
    \/ \E t \in Transactions : concurrent_delete_book(t)
    \/ \E t \in Transactions : concurrent_delete_order_item(t)
    \/ \E t \in Transactions : commit(t)

SpecConcurrent == Init /\ [][NextConcurrent]_vars

(***************************************************************************)
(* Properties.                                                             *)
(***************************************************************************)
Committed == last.status \in {200, 201}

dbvars == <<names, authors, addresses, customers, books, book_authors,
            orders, order_items, seq>>

\* C1: whenever a committed step removes a BookAuthor row (b, A), Author A is
\* gone afterwards exactly if no BookAuthor row referencing A remains, and is
\* still there if one remains.
C1_OrphanAuthorIff ==
    [][\A a \in DOMAIN authors :
          (\E r \in book_authors : r[2] = a /\ r \notin book_authors')
          => ((a \notin DOMAIN authors') <=> ~\E r \in book_authors' : r[2] = a)]_vars

\* a delete that removed rows of two authors: one deleted, one retained
C1_Witness ==
    /\ last.status = 200
    /\ \E r \in last.effect.gone.book_authors : r[2] \in last.effect.gone.authors
    /\ \E r \in last.effect.gone.book_authors :
          r[2] \in DOMAIN authors /\ \E q \in book_authors : q[2] = r[2]

\* C2: a successful Book delete (handler or session) removes exactly the
\* BookAuthor rows of that Book, deletes each of its Authors that has no row
\* to another Book and keeps each of its Authors that has one.
C2_BookDeleteAuthors ==
    [][(last'.op \in {"delete_book", "session_delete_book"} /\ last'.status = 200)
       => LET b == last'.id
          IN  /\ b \notin DOMAIN books'
              /\ book_authors' = {r \in book_authors : r[1] # b}
              /\ \A a \in DOMAIN authors :
                    <<b, a>> \in book_authors
                    => ((a \notin DOMAIN authors')
                        <=> ~\E r \in book_authors : r[2] = a /\ r[1] # b)
              /\ \A a \in DOMAIN authors :
                    <<b, a>> \notin book_authors => a \in DOMAIN authors']_vars

\* delete_book on a book with two authors: one deleted, one kept
C2_Witness ==
    /\ last.op = "delete_book" /\ last.status = 200
    /\ \E r \in last.effect.gone.book_authors :
          r[1] = last.id /\ r[2] \in last.effect.gone.authors
    /\ \E r \in last.effect.gone.book_authors :
          r[1] = last.id /\ r[2] \in DOMAIN authors

\* C3: whenever a committed step removes a BookAuthor row of Book B, B is gone
\* afterwards exactly if no BookAuthor row referencing B remains.
C3_OrphanBookIff ==
    [][\A b \in DOMAIN books :
          (\E r \in book_authors : r[1] = b /\ r \notin book_authors')
          => ((b \notin DOMAIN books') <=> ~\E r \in book_authors' : r[1] = b)]_vars

\* deleting an author removed one book with it and left another book, which
\* lost a row, in place
C3_Witness ==
    /\ last.op = "session_delete_author" /\ last.status = 200
    /\ \E r \in last.effect.gone.book_authors : r[1] \in last.effect.gone.books
    /\ \E r \in last.effect.gone.book_authors : r[1] \in DOMAIN books

\* C9: whenever a step deletes an Author as an orphan (junction delete, Book
\* delete or the delete_book handler), the Name row the Author owned is gone
\* after the commit as well.
C9_OrphanAuthorNameDeleted ==
    [][(last'.op \in {"delete_book", "session_delete_book",
                      "session_delete_book_authors"})
       => \A a \in DOMAIN authors :
             a \notin DOMAIN authors' => authors[a] \notin DOMAIN names']_vars

\* C4: a step that deletes a Customer with address_id X deletes Address X
\* exactly if no other Customer has address_id X; every other Customer, its
\* address_id included, and every other Address is left as it was; a Customer
\* with a null address_id takes no Address with it.
C4_OrphanAddressIff ==
    [][\A c \in DOMAIN customers :
          c \notin DOMAIN customers'
          => LET x == customers[c].address_id
             IN  /\ x # NULL =>
                      ((x \notin addresses')
                       <=> ~\E c2 \in DOMAIN customers' :
                              customers'[c2].address_id = x)
                 /\ addresses \ addresses' \subseteq {x} \ {NULL}
                 /\ \A c2 \in DOMAIN customers \ {c} :
                       c2 \in DOMAIN customers' /\ customers'[c2] = customers[c2]]_vars

\* the second of two customers was deleted and took its address with it,
\* another address staying
C4_Witness ==
    /\ last.op = "delete_customer" /\ last.status = 200
    /\ last.effect.gone.addresses # {}
    /\ seq.customers = 2 /\ DOMAIN customers = {}
    /\ addresses # {}

\* C5: whenever a committed step removes OrderItem rows of Order O, O is gone
\* afterwards exactly if no OrderItem row referencing O remains; a direct
\* delete of some rows leaves the other rows as they were.
C5_OrphanOrderIff ==
    [][/\ \A o \in DOMAIN orders :
            (\E oi \in order_items :
                /\ oi.order_id = o
                /\ ~\E r \in order_items' :
                      r.order_id = o /\ r.book_id = oi.book_id)
            => ((o \notin DOMAIN orders')
                <=> ~\E r \in order_items' : r.order_id = o)
       /\ last'.op = "session_delete_order_items"
            => order_items' \subseteq order_items]_vars

\* a direct delete of the items of an order took the order with it
C5_Witness ==
    /\ last.op = "session_delete_order_items" /\ last.status = 200
    /\ \E r \in last.effect.gone.order_items : r[2] \in last.effect.gone.orders

\* C6: a direct delete of a Name that an Author or a Customer references ends
\* in a constraint error (400) and changes nothing; deleting a Customer (that
\* no Order references) removes the Customer and its Name.
C6_NameRestrictAndCascade ==
    [][/\ (last'.op = "session_delete_name" /\ last'.id \in NameRefs(Db))
            => (last'.status = 400 /\ UNCHANGED dbvars)
       /\ \A c \in DOMAIN customers :
            (/\ last'.op = "delete_customer" /\ last'.id = c
             /\ ~\E o \in DOMAIN orders : orders[o].customer_id = c)
            => /\ last'.status = 200
               /\ c \notin DOMAIN customers'
               /\ customers[c].name_id \notin DOMAIN names']_vars

\* a direct delete of a referenced name was refused
C6_Witness ==
    /\ last.op = "session_delete_name" /\ last.status = 400
    /\ last.id \in NameRefs(Db)

\* C7: a delete whose orphan cleanup fails leaves the persisted state as it
\* was and reports an error; a delete that reports success never leaves a
\* Book behind that lost its last BookAuthor row.
C7_CleanupAtomic ==
    [][last'.op \in {"delete_book", "session_delete_book",
                     "session_delete_book_authors", "session_delete_author"}
       => /\ last'.status # 200 => UNCHANGED dbvars
          /\ last'.status = 200 =>
                \A b \in DOMAIN books' :
                    (\E r \in book_authors : r[1] = b)
                    => \E r \in book_authors' : r[1] = b]_vars

\* the book cleanup of an author delete hit an order item: refused, rolled back
C7_Witness ==
    /\ last.op = "session_delete_author" /\ last.status = 400
    /\ \E oi \in order_items : \E r \in book_authors :
          r[1] = oi.book_id /\ r[2] = last.id

RECURSIVE SumItems(_)
SumItems(S) ==
    IF S = {} THEN 0
    ELSE LET oi == CHOOSE x \in S : TRUE
         IN  books[oi.book_id].price * oi.quantity + SumItems(S \ {oi})

\* C8: after every successful create_order and update_order the stored
\* price_total of the Order is the sum of quantity times Book price over the
\* Order's current items.
C8_PriceTotalConsistent ==
    (last.op \in {"create_order", "update_order"} /\ Committed)
    => orders[last.id].price_total
           = SumItems({oi \in order_items : oi.order_id = last.id})

\* C10 as claimed: an update that repoints a Customer away from Address X,
\* leaving X unreferenced, deletes X.
C10_RepointDeletesAddress ==
    [][\A c \in DOMAIN customers :
          LET x == customers[c].address_id
          IN  (/\ last'.op = "update_customer" /\ last'.status = 200
               /\ last'.id = c /\ x # NULL
               /\ customers'[c].address_id # x
               /\ ~\E c2 \in DOMAIN customers' : customers'[c2].address_id = x)
              => x \notin addresses']_vars

\* C10 as amended: a Customer update deletes no Address, also when it leaves
\* the Address it repoints away from unreferenced.
C10_UpdateKeepsAddresses ==
    [][last'.op = "update_customer" => addresses' = addresses]_vars

\* an update left the address it repointed away from unreferenced, in place
C10_Witness ==
    /\ last.op = "update_customer" /\ last.status = 200
    /\ last.effect.orphaned.addresses # {}

\* C11 as claimed: no step deletes an Address that a Customer which is still
\* there after the step referenced before it.
C11_AddressNeverDeletedWhileReferenced ==
    [][\A x \in addresses \ addresses' :
          ~\E c \in DOMAIN customers \cap DOMAIN customers' :
                customers[c].address_id = x]_vars

\* C11 as amended: a Customer delete removes no Address that another
\* Customer references; a direct delete of an Address succeeds also when
\* Customers reference it and sets their address_id to null, leaving every
\* other Customer field as it was; no Customer ever references a missing
\* Address.
C11_AddressDeleteNullsReferences ==
    [][/\ last'.op = "delete_customer"
            => \A x \in addresses \ addresses' :
                  ~\E c \in DOMAIN customers \cap DOMAIN customers' :
                        customers[c].address_id = x
       /\ (last'.op = "delete_address" /\ last'.id \in addresses)
            => /\ last'.status = 200
               /\ addresses' = addresses \ {last'.id}
               /\ DOMAIN customers' = DOMAIN customers
               /\ \A c \in DOMAIN customers :
                     customers'[c] =
                        IF customers[c].address_id = last'.id
                        THEN [customers[c] EXCEPT !.address_id = NULL]
                        ELSE customers[c]
       /\ AddressRefs(Db)' \subseteq addresses']_vars

\* a direct delete removed an address that a customer referenced
C11_Witness ==
    /\ last.op = "delete_address" /\ last.status = 200
    /\ last.effect.gone.addresses = {last.id}
    /\ last.effect.nulled # {}

\* C12: a Book that an OrderItem references is deleted by no operation; an
\* attempt (the delete_book handler, a direct delete of the Book, or a delete
\* that takes the last BookAuthor row of the Book) ends in a constraint
\* error (400) and leaves the Book, its BookAuthor rows, the Authors and the
\* OrderItems as they were.
C12_OrderedBookRestricted ==
    [][\A b \in DOMAIN books :
          (\E oi \in order_items : oi.book_id = b)
          => /\ b \in DOMAIN books'
             /\ (\E r \in book_authors : r[1] = b)
                   => (\E r \in book_authors' : r[1] = b)
             /\ (last'.op \in {"delete_book", "session_delete_book"}
                    /\ last'.id = b)
                   => /\ last'.status = 400
                      /\ UNCHANGED <<books, book_authors, authors, order_items>>]_vars

\* C13: a Customer that an Order references is deleted by no step; the
\* delete_customer request for it ends in a constraint error (400) and leaves
\* the Customer, its Name, its Address and the Orders (everything persisted)
\* as they were.
C13_OrderedCustomerRestricted ==
    [][\A c \in DOMAIN customers :
          (\E o \in DOMAIN orders : orders[o].customer_id = c)
          => /\ c \in DOMAIN customers' /\ customers'[c] = customers[c]
             /\ customers[c].name_id \in DOMAIN names'
             /\ (last'.op = "delete_customer" /\ last'.id = c)
                   => (last'.status = 400 /\ UNCHANGED dbvars)]_vars

\* the delete of a customer with an order was refused; its address, which no
\* other customer shares, is still there
C13_Witness ==
    /\ last.op = "delete_customer" /\ last.status = 400
    /\ last.id \in DOMAIN customers
    /\ \E o \in DOMAIN orders : orders[o].customer_id = last.id
    /\ customers[last.id].address_id \in addresses
    /\ \A c \in DOMAIN customers \ {last.id} :
          customers[c].address_id # customers[last.id].address_id

\* C14: in every state the request handlers commit, every Order has at least
\* one OrderItem; create_order with no items and update_order with a missing
\* or an empty order_items list are rejected and leave the store as it was.
C14_OrdersHaveItems ==
    /\ \A o \in DOMAIN orders : \E oi \in order_items : oi.order_id = o
    /\ \A customer_id \in CustomerIds :
          LET R == create_order_tx(Db, customer_id, << >>, 0)
          IN  R.err # "none" /\ handle_errors(Db, R) = Db
    /\ \A order_id \in OrderIds, updated_order \in OrderPayloads({<< >>}) :
          LET R == update_order_tx(Db, order_id, updated_order)
          IN  R.err # "none" /\ handle_errors(Db, R) = Db

\* update_order took items off an order, which is still there with others
C14_Witness ==
    /\ last.op = "update_order" /\ last.status = 200
    /\ last.effect.gone.order_items # {}
    /\ last.id \in DOMAIN orders
    /\ \E oi \in order_items : oi.order_id = last.id

\* C15: a successful update_order of Order O with items list L leaves O in
\* place with exactly the (book_id, quantity) pairs of L as its OrderItems.
C15_UpdateReplacesItems ==
    \A order_id \in DOMAIN orders,
       updated_order \in OrderPayloads(SeqsUpTo(Items(Quantities), MaxListLen)) :
        LET R == update_order_tx(Db, order_id, updated_order)
            L == updated_order.order_items
        IN  R.err = "none"
            => /\ order_id \in DOMAIN R.db.orders
               /\ {<<oi.book_id, oi.quantity>> :
                      oi \in {r \in R.db.order_items : r.order_id = order_id}}
                  = {<<L[i].book_id, L[i].quantity>> : i \in DOMAIN L}

\* C16: a request that ends in an error (validation error, missing referenced
\* row, constraint violation, unhandled exception) leaves every table as it was
\* before the request, also when the handler had flushed rows before failing.
C16_ErrorLeavesStateUnchanged ==
    [][last'.status \notin {200, 201} => UNCHANGED dbvars]_vars

\* create_order got past its first item (customer found, book 1 found, Order
\* and OrderItem flushed) and failed with 404 on the second item's book: no
\* Order and no OrderItem row is left
C16_Witness ==
    /\ last.op = "create_order" /\ last.status = 404
    /\ DOMAIN customers = CustomerIds
    /\ 1 \in DOMAIN books /\ 2 \notin DOMAIN books
    /\ orders = << >> /\ order_items = {}

\* C17: when two overlapping transactions each delete one of the last two
\* rows referencing a shared parent, then once both have committed the parent
\* is gone: no commit leaves an Address behind that lost its last Customer,
\* and with no transaction open every Author has a BookAuthor row and every
\* Order has an OrderItem.
C17_ConcurrentCleanupComplete ==
    /\ last.op = "delete_customer" /\ last.status = 200
       => last.effect.orphaned.addresses = {}
    /\ Quiescent =>
          /\ \A a \in DOMAIN authors : \E r \in book_authors : r[2] = a
          /\ \A o \in DOMAIN orders : \E oi \in order_items : oi.order_id = o

\* C18: every request runs its store operations in one transaction: a request
\* that succeeds has sent exactly one COMMIT and has run no store operation
\* after it, and a request that ends in an error has sent none.
C18_OneTransactionPerRequest ==
    /\ last.status \in {200, 201} => last.commits = 1 /\ last.after_commit = 0
    /\ last.status \notin {200, 201} => last.commits = 0

\* C19: after any sequence of create_book and update_book requests, no two
\* Author rows have Names with the same first and last name.
C19_AuthorNamesUnique ==
    \A a1, a2 \in DOMAIN authors :
        names[authors[a1]] = names[authors[a2]] => a1 = a2

\* C20: a successful update_book with an authors list L leaves the Book with
\* exactly the authors of L: it has Len(L) authors and, in an order in which
\* the database may return them, the i-th author bears the name L[i] (as the
\* Name row stores it), for L longer than, as long as or shorter than the
\* Book's previous author list.
C20_UpdateSetsAuthorList ==
    \A book_id \in DOMAIN books, L \in SeqsUpTo(RawNames, MaxListLen) :
        \A current_authors \in Orderings(AuthorsOf(Db, book_id)) :
            LET R == update_book_tx(Db, book_id,
                                    [fields |-> {"authors"}, authors |-> L,
                                     price |-> 1],
                                    current_authors)
                A == AuthorsOf(R.db, book_id)
            IN  R.err = "none" =>
                    /\ Cardinality(A) = Len(L)
                    /\ \E s \in Orderings(A) : \A i \in 1..Len(L) :
                          R.db.names[R.db.authors[s[i]]] = title(L[i])

\* C21: in every reachable state no Name row has more than one owner, the
\* references authors.name_id and customers.name_id counted together.
C21_NameSingleOwner ==
    /\ \A a1, a2 \in DOMAIN authors : authors[a1] = authors[a2] => a1 = a2
    /\ \A c1, c2 \in DOMAIN customers :
          customers[c1].name_id = customers[c2].name_id => c1 = c2
    /\ \A a \in DOMAIN authors, c \in DOMAIN customers :
          authors[a] # customers[c].name_id

\* an Author was created while a Customer of the same name exists: each has
\* a Name row of its own
C21_Witness ==
    /\ last.op = "create_book" /\ last.status = 201
    /\ \E a \in DOMAIN authors, c \in DOMAIN customers :
          /\ <<last.id, a>> \in book_authors
          /\ names[authors[a]] = names[customers[c].name_id]

\* C22: a Book's price is 0 only if it is discontinued: no persisted Book has
\* price 0 with discontinued false, an update that assigns price 0 to a Book
\* that is not discontinued is rejected with a validation error, and one that
\* assigns price 0 to a discontinued Book is accepted.
C22_ZeroPriceOnlyIfDiscontinued ==
    /\ \A b \in DOMAIN books : books[b].price = 0 => books[b].discontinued
    /\ \A b \in DOMAIN books :
          LET R == update_book_tx(Db, b, [fields |-> {"price"}, authors |-> << >>,
                                          price |-> 0], << >>)
          IN  IF books[b].discontinued THEN R.err = "none"
              ELSE R.err = "ValueError"

\* C23: a successful direct delete of an Address sets address_id to null on
\* every Customer that referenced it and leaves every other field of every
\* Customer as it was; no Customer, Name or Order is deleted or changed.
C23_AddressDeleteFrame ==
    [][last'.op = "delete_address" /\ last'.status = 200
       => /\ last'.id \in addresses /\ last'.id \notin addresses'
          /\ customers' = [c \in DOMAIN customers |->
                              IF customers[c].address_id = last'.id
                              THEN [customers[c] EXCEPT !.address_id = NULL]
                              ELSE customers[c]]
          /\ names' = names /\ orders' = orders /\ order_items' = order_items]_vars

\* an Address was deleted under a Customer that has an Order
C23_Witness ==
    /\ last.op = "delete_address" /\ last.status = 200
    /\ \E c \in last.effect.nulled : \E o \in DOMAIN orders :
          orders[o].customer_id = c

\* C24: the server computes price_total: two create_order requests, or two
\* update_order requests, that differ only in the price_total they send get
\* the same answer and leave the same persisted state.
C24_ClientTotalIgnored ==
    /\ \A customer_id \in CustomerIds, order_items_data \in SeqsUpTo(Items({1}), 2) :
          \A p \in ClientTotals :
            LET R1 == create_order_tx(Db, customer_id, order_items_data, 0)
                R2 == create_order_tx(Db, customer_id, order_items_data, p)
            IN  R1.err = R2.err /\ handle_errors(Db, R1) = handle_errors(Db, R2)
    /\ \A order_id \in OrderIds, P \in OrderPayloads(SeqsUpTo(Items({1}), 2)) :
          \A p \in ClientTotals :
            LET R1 == update_order_tx(Db, order_id,
                         [fields |-> P.fields \cup {"price_total"},
                          customer_id |-> P.customer_id,
                          order_items |-> P.order_items, price_total |-> 0])
                R2 == update_order_tx(Db, order_id,
                         [fields |-> P.fields \cup {"price_total"},
                          customer_id |-> P.customer_id,
                          order_items |-> P.order_items, price_total |-> p])
            IN  R1.err = R2.err /\ handle_errors(Db, R1) = handle_errors(Db, R2)

\* an Order was created whose stored price_total is none of the amounts a
\* client could have sent with it
C24_Witness ==
    /\ last.op = "create_order" /\ last.status = 201
    /\ orders[last.id].price_total \notin ClientTotals

\* C25: the customer_id of an Order never changes: an update_order whose
\* payload carries another customer_id is answered 400 and leaves the Order,
\* its OrderItems and its price_total as they were; with the Order's own
\* customer_id the update is treated like one without a customer_id.
C25_CustomerIdFixed ==
    \A order_id \in DOMAIN orders, c \in CustomerIds,
       L \in SeqsUpTo(Items(Quantities), 1) :
        LET R == update_order_tx(Db, order_id,
                    [fields |-> {"customer_id", "order_items"},
                     customer_id |-> c, order_items |-> L])
            U == update_order_tx(Db, order_id,
                    [fields |-> {"order_items"}, customer_id |-> NULL,
                     order_items |-> L])
        IN  /\ IF c # orders[order_id].customer_id
               THEN StatusOf(R.err, 200) = 400 /\ handle_errors(Db, R) = Db
               ELSE R = U
            /\ \A o \in DOMAIN orders \cap DOMAIN U.db.orders :
                  U.db.orders[o].customer_id = orders[o].customer_id

\* an update naming the other customer was refused
C25_Witness ==
    /\ last.op = "update_order" /\ last.status = 400
    /\ last.id \in DOMAIN orders
    /\ \E c \in DOMAIN customers : c # orders[last.id].customer_id

\* C26: a successful update_book with an authors list for Book B changes
\* nothing that is visible on another Book: every other Book keeps its set of
\* Authors, and those Authors keep their names.
C26_UpdateBookFrame ==
    \A book_id \in DOMAIN books, L \in SeqsUpTo(RawNames, MaxListLen) :
        \A current_authors \in Orderings(AuthorsOf(Db, book_id)) :
            LET R == update_book_tx(Db, book_id,
                                    [fields |-> {"authors"}, authors |-> L,
                                     price |-> 1],
                                    current_authors)
            IN  R.err = "none" =>
                    \A other \in DOMAIN books \ {book_id} :
                        /\ AuthorsOf(R.db, other) = AuthorsOf(Db, other)
                        /\ \A a \in AuthorsOf(Db, other) :
                              R.db.names[R.db.authors[a]] = names[authors[a]]

\* C27: when an Author is the only author of a Book that an OrderItem
\* references, deleting the Author, or deleting that BookAuthor row, ends in a
\* constraint error (the book cleanup hits RESTRICT) and the Author, its Name,
\* the BookAuthor row, the Book and the OrderItem all stay.
C27_SoleAuthorOfOrderedBookKept ==
    \A ba \in book_authors :
        (/\ AuthorsOf(Db, ba[1]) = {ba[2]}
         /\ \E oi \in order_items : oi.book_id = ba[1])
        => LET RA == OrmDeleteAuthor(Db, ba[2])
               RB == FlushDeleteBookAuthors(Db, {ba})
           IN  /\ RA.err = "IntegrityError" /\ StatusOf(RA.err, 200) = 400
               /\ handle_errors(Db, RA) = Db
               /\ RB.err = "IntegrityError" /\ StatusOf(RB.err, 200) = 400
               /\ handle_errors(Db, RB) = Db

\* the delete of the only BookAuthor row of an ordered Book was refused
C27_Witness ==
    /\ last.op = "session_delete_book_authors" /\ last.status = 400
    /\ \E ba \in book_authors :
          /\ ba[2] = last.id /\ AuthorsOf(Db, ba[1]) = {ba[2]}
          /\ \E oi \in order_items : oi.book_id = ba[1]

\* C28: in every committed state no reference dangles: every BookAuthor row
\* references an existing Book and Author, every OrderItem an existing Book
\* and Order, every Order an existing Customer, every Author and Customer an
\* existing Name, and every non-null Customer.address_id an existing Address.
C28_NoDanglingReference ==
    /\ \A ba \in book_authors : ba[1] \in DOMAIN books /\ ba[2] \in DOMAIN authors
    /\ \A oi \in order_items :
          oi.book_id \in DOMAIN books /\ oi.order_id \in DOMAIN orders
    /\ \A o \in DOMAIN orders : orders[o].customer_id \in DOMAIN customers
    /\ \A a \in DOMAIN authors : authors[a] \in DOMAIN names
    /\ \A c \in DOMAIN customers :
          /\ customers[c].name_id \in DOMAIN names
          /\ customers[c].address_id # NULL
             => customers[c].address_id \in addresses

\* an Address was deleted under a Customer that referenced it, while Authors,
\* BookAuthor rows, Orders and OrderItems exist
C28_Witness ==
    /\ last.op = "delete_address" /\ last.status = 200
    /\ last.effect.nulled # {}
    /\ book_authors # {} /\ order_items # {}

\* what C29 compares: the Authors, Books, Orders and Addresses left after the
\* transaction of result R ended
Outcome(R) ==
    LET D == handle_errors(Db, R)
    IN  [authors |-> D.authors, books |-> D.books, orders |-> D.orders,
         addresses |-> D.addresses]

\* C29: deleting a set of BookAuthor rows, of OrderItem rows or of Customers
\* in one transaction leaves the same Authors, Books, Orders and Addresses
\* whatever the order of the deletes and of their orphan checks.
C29_DeleteOrderIrrelevant ==
    /\ \A S \in RowSets(book_authors) : \A order \in Orderings(S) :
          /\ Outcome(DeleteBookAuthorsIn(Db, order))
                 = Outcome(FlushDeleteBookAuthors(Db, S))
          /\ Outcome(DeleteBookAuthorsOneByOne(Ok(Db), order))
                 = Outcome(FlushDeleteBookAuthors(Db, S))
    /\ \A S \in RowSets(order_items) : \A order \in Orderings(S) :
          /\ Outcome(DeleteOrderItemsIn(Db, order))
                 = Outcome(FlushDeleteOrderItems(Db, S))
          /\ Outcome(DeleteOrderItemsOneByOne(Ok(Db), order))
                 = Outcome(FlushDeleteOrderItems(Db, S))
    /\ \A S \in RowSets(DOMAIN customers) : \A o1, o2 \in Orderings(S) :
          /\ Outcome(DeleteCustomersIn(Db, o1)) = Outcome(DeleteCustomersIn(Db, o2))
          /\ Outcome(DeleteCustomersOneByOne(Ok(Db), o1))
                 = Outcome(DeleteCustomersIn(Db, o2))

\* the two BookAuthor rows of an Author were deleted in one transaction: the
\* Author went with them and both Books, which are on an Order, stayed
C29_Witness ==
    /\ last.op = "session_delete_author" /\ last.status = 200
    /\ Cardinality(last.effect.gone.book_authors) = 2
    /\ \A r \in last.effect.gone.book_authors : r[1] \in DOMAIN books
    /\ Cardinality(order_items) = 2

\* C30: every Book created through create_book has at least one BookAuthor row
\* when the request commits: every payload that create_book accepts has a
\* non-empty authors list and the committed Book is linked to one Author per
\* entry of that list.
C30_CreatedBookHasAuthors ==
    /\ \A b \in DOMAIN books : \E ba \in book_authors : ba[1] = b
    /\ seq.books < MaxBooks
       => \A authors_data \in SeqsUpTo(RawNames, MaxListLen) :
             \A book_data \in BookData({1}, {FALSE}) :
                LET R == create_book_tx(Db, authors_data, book_data)
                IN  R.err = "none"
                    => /\ Len(authors_data) >= 1
                       /\ Cardinality(AuthorsOf(R.db, seq.books + 1))
                              = Len(authors_data)
====
